---- MODULE Spec2Model ----
(***************************************************************************)
(* Model of libhomeseer/devices.py: the capability classifier              *)
(* (get_supported_features), the device factory (get_device, build_device  *)
(* and the build_* helpers), the device variants with their mutators, the  *)
(* update path (register_update_callback, update_data) and the thermostat  *)
(* resolution (get_thermostat).                                            *)
(***************************************************************************)
EXTENDS Integers, Sequences, FiniteSets, TLC

\* ------------------------------------------------------------------------
\* Program constants (devices.py:9-33)
\* ------------------------------------------------------------------------
CONTROL_USE_ON == 1
CONTROL_USE_OFF == 2
CONTROL_USE_DIM == 3
CONTROL_USE_STOP == 7
CONTROL_USE_HEAT_SETPOINT == 12
CONTROL_USE_COOL_SETPOINT == 13
CONTROL_USE_THERM_MODE_OFF == 14
CONTROL_USE_THERM_MODE_HEAT == 15
CONTROL_USE_THERM_MODE_COOL == 16
CONTROL_USE_LOCK == 18
CONTROL_USE_UNLOCK == 19
CONTROL_USE_FAN == 23

SUPPORT_STATUS == 0
SUPPORT_ON == 1
SUPPORT_OFF == 2
SUPPORT_LOCK == 4
SUPPORT_UNLOCK == 8
SUPPORT_DIM == 16
SUPPORT_FAN == 32
SUPPORT_STOP == 64
SUPPORT_SETPOINT == 128
SUPPORT_THERM_MODES == 512

\* Python's None
None == [None |-> TRUE]

\* None where the value is otherwise a list
NoneList == <<None>>

\* ------------------------------------------------------------------------
\* Python's int | int on non-negative integers
\* ------------------------------------------------------------------------
RECURSIVE BitOr(_, _)
BitOr(a, b) ==
    IF a = 0 THEN b
    ELSE IF b = 0 THEN a
    ELSE (IF (a % 2 = 1) \/ (b % 2 = 1) THEN 1 ELSE 0)
         + 2 * BitOr(a \div 2, b \div 2)

\* ------------------------------------------------------------------------
\* Python floats (IEEE 754 binary64, round to nearest, ties to even).
\* A float is [neg, man, exp]: man is the significand as a sequence of
\* FloatPrecision bits, most significant first (<<>> for zero), and the
\* value is (-1)^neg * man * 2^exp.
\* ------------------------------------------------------------------------
FloatPrecision == 53

Abs(n) == IF n < 0 THEN -n ELSE n

RECURSIVE Pow2(_)
Pow2(n) == IF n = 0 THEN 1 ELSE 2 * Pow2(n - 1)

Front(s) == SubSeq(s, 1, Len(s) - 1)

Last(s) == s[Len(s)]

Zeros(n) == [i \in 1..n |-> 0]

\* the bits of a non-negative integer, most significant first (<<>> for 0)
RECURSIVE IntBits(_)
IntBits(n) == IF n = 0 THEN <<>> ELSE Append(IntBits(n \div 2), n % 2)

\* the integer the first i bits of a bit sequence denote, after acc
RECURSIVE BitsIntFrom(_, _, _, _)
BitsIntFrom(bits, i, n, acc) ==
    IF i > n THEN acc ELSE BitsIntFrom(bits, i + 1, n, 2 * acc + bits[i])

BitsInt(bits) == BitsIntFrom(bits, 1, Len(bits), 0)

\* bits + 1, carrying from position i; the result is one bit longer when
\* every bit was 1
RECURSIVE IncBitsAt(_, _)
IncBitsAt(bits, i) ==
    IF i = 0 THEN <<1>> \o bits
    ELSE IF bits[i] = 0 THEN [bits EXCEPT ![i] = 1]
    ELSE IncBitsAt([bits EXCEPT ![i] = 0], i - 1)

IncBits(bits) == IncBitsAt(bits, Len(bits))

\* bits[1..i] * n + carry, followed by acc, for a small integer n >= 0
RECURSIVE MulBitsAt(_, _, _, _, _)
MulBitsAt(bits, i, n, carry, acc) ==
    IF i = 0 THEN IntBits(carry) \o acc
    ELSE MulBitsAt(bits, i - 1, n, (bits[i] * n + carry) \div 2,
                   <<(bits[i] * n + carry) % 2>> \o acc)

MulBits(bits, n) == MulBitsAt(bits, Len(bits), n, 0, <<>>)

FloatZero == [neg |-> FALSE, man |-> <<>>, exp |-> 0]

\* round the exact value bits * 2^exp (bits with a leading 1) to a float
RoundFloat(neg, bits, exp) ==
    LET L == Len(bits) IN
    IF L = 0 THEN FloatZero
    ELSE IF L <= FloatPrecision
    THEN [neg |-> neg, man |-> bits \o Zeros(FloatPrecision - L),
          exp |-> exp - (FloatPrecision - L)]
    ELSE LET kept   == SubSeq(bits, 1, FloatPrecision)
             guard  == bits[FloatPrecision + 1]
             sticky == \E i \in (FloatPrecision + 2)..L : bits[i] = 1
             up     == guard = 1 /\ (sticky \/ Last(kept) = 1)
             inc    == IF up THEN IncBits(kept) ELSE kept
         IN  IF Len(inc) > FloatPrecision
             THEN [neg |-> neg, man |-> Front(inc),
                   exp |-> exp + (L - FloatPrecision) + 1]
             ELSE [neg |-> neg, man |-> inc,
                   exp |-> exp + (L - FloatPrecision)]

\* acc followed by the next n quotient bits of num/den (num < 2*den), with
\* twice the remainder left after the last bit
RECURSIVE DivBits(_, _, _, _)
DivBits(num, den, n, acc) ==
    IF n = 0 THEN [bits |-> acc, rem |-> num]
    ELSE IF num >= den
    THEN DivBits(2 * (num - den), den, n - 1, Append(acc, 1))
    ELSE DivBits(2 * num, den, n - 1, Append(acc, 0))

\* the k with den * 2^k <= num < den * 2^(k+1), for num, den > 0
RECURSIVE QuotExp(_, _)
QuotExp(num, den) ==
    IF num < den THEN QuotExp(2 * num, den) - 1
    ELSE IF num >= 2 * den THEN QuotExp(num, 2 * den) + 1
    ELSE 0

\* a / b for integers a and b # 0 (true division, correctly rounded)
FloatDiv(a, b) ==
    IF a = 0 THEN FloatZero
    ELSE LET neg == (a < 0) # (b < 0)
             k   == QuotExp(Abs(a), Abs(b))
             num == IF k < 0 THEN Abs(a) * Pow2(-k) ELSE Abs(a)
             den == IF k > 0 THEN Abs(b) * Pow2(k) ELSE Abs(b)
             q   == DivBits(num, den, FloatPrecision, <<>>)
             \* q.rem is twice the remainder left after the last bit
             up  == q.rem > den \/ (q.rem = den /\ Last(q.bits) = 1)
             inc == IF up THEN IncBits(q.bits) ELSE q.bits
         IN  IF Len(inc) > FloatPrecision
             THEN [neg |-> neg, man |-> Front(inc),
                   exp |-> k - (FloatPrecision - 1) + 1]
             ELSE [neg |-> neg, man |-> inc,
                   exp |-> k - (FloatPrecision - 1)]

\* f * n for a float f and an integer n (n is converted exactly)
FloatMulInt(f, n) ==
    IF f.man = <<>> \/ n = 0 THEN FloatZero
    ELSE RoundFloat(f.neg # (n < 0), MulBits(f.man, Abs(n)), f.exp)

\* int(f): truncation toward zero
FloatTrunc(f) ==
    IF f.man = <<>> THEN 0
    ELSE LET nb  == FloatPrecision + f.exp
             mag == IF nb <= 0 THEN 0
                    ELSE IF f.exp >= 0 THEN BitsInt(f.man) * Pow2(f.exp)
                    ELSE BitsIntFrom(f.man, 1, nb, 0)
         IN  IF f.neg THEN -mag ELSE mag

\* ------------------------------------------------------------------------
\* State
\* ------------------------------------------------------------------------
VARIABLES
    pc,                        \* "start", "classified", "built", "ready", "done"
    control_data,              \* the control description given to get_device
    supported_features,        \* the mask get_supported_features returned
    device,                    \* the device object: class and control values
    raw_data,                  \* device._raw_data
    update_callback,           \* device._update_callback
    suppress_update_callback,  \* device._suppress_update_callback
    call,                      \* the last call made on the device, its result
    requests,                  \* what that call sent through device._request
    notified,                  \* the callback invocations that call made
    n_updates,                 \* update_data calls since the last registration
    n_notified,                \* callback invocations since the last registration
    devices,                   \* the device table given to get_thermostat
    thermostat                 \* what get_thermostat returned

vars == <<pc, control_data, supported_features, device, raw_data,
          update_callback, suppress_update_callback, call, requests,
          notified, n_updates, n_notified, devices, thermostat>>

\* ------------------------------------------------------------------------
\* Capability classifier (devices.py:363-390)
\* ------------------------------------------------------------------------
\* FeatureStep with += in place of |= for On
FeatureStepAdding(supported_features_, control_use) ==
    IF control_use = CONTROL_USE_ON
    THEN supported_features_ + SUPPORT_ON
    ELSE IF control_use = CONTROL_USE_OFF
    THEN BitOr(supported_features_, SUPPORT_OFF)
    ELSE IF control_use = CONTROL_USE_STOP
    THEN BitOr(supported_features_, SUPPORT_STOP)
    ELSE IF control_use = CONTROL_USE_LOCK
    THEN BitOr(supported_features_, SUPPORT_LOCK)
    ELSE IF control_use = CONTROL_USE_UNLOCK
    THEN BitOr(supported_features_, SUPPORT_UNLOCK)
    ELSE IF control_use = CONTROL_USE_DIM
    THEN BitOr(supported_features_, SUPPORT_DIM)
    ELSE IF control_use = CONTROL_USE_FAN
    THEN BitOr(supported_features_, SUPPORT_FAN)
    ELSE IF control_use = CONTROL_USE_COOL_SETPOINT
            \/ control_use = CONTROL_USE_HEAT_SETPOINT
    THEN BitOr(supported_features_, SUPPORT_SETPOINT)
    ELSE IF control_use = CONTROL_USE_THERM_MODE_COOL
            \/ control_use = CONTROL_USE_THERM_MODE_HEAT
            \/ control_use = CONTROL_USE_THERM_MODE_OFF
    THEN BitOr(supported_features_, SUPPORT_THERM_MODES)
    ELSE supported_features_

\* FeatureStep without the branch of the thermostat mode codes
FeatureStepWithoutThermModes(supported_features_, control_use) ==
    IF control_use = CONTROL_USE_ON
    THEN BitOr(supported_features_, SUPPORT_ON)
    ELSE IF control_use = CONTROL_USE_OFF
    THEN BitOr(supported_features_, SUPPORT_OFF)
    ELSE IF control_use = CONTROL_USE_STOP
    THEN BitOr(supported_features_, SUPPORT_STOP)
    ELSE IF control_use = CONTROL_USE_LOCK
    THEN BitOr(supported_features_, SUPPORT_LOCK)
    ELSE IF control_use = CONTROL_USE_UNLOCK
    THEN BitOr(supported_features_, SUPPORT_UNLOCK)
    ELSE IF control_use = CONTROL_USE_DIM
    THEN BitOr(supported_features_, SUPPORT_DIM)
    ELSE IF control_use = CONTROL_USE_FAN
    THEN BitOr(supported_features_, SUPPORT_FAN)
    ELSE IF control_use = CONTROL_USE_COOL_SETPOINT
            \/ control_use = CONTROL_USE_HEAT_SETPOINT
    THEN BitOr(supported_features_, SUPPORT_SETPOINT)
    ELSE supported_features_

\* one pass of the loop body: the if/elif chain on pair["ControlUse"]
FeatureStep(supported_features_, control_use) ==
    IF control_use = CONTROL_USE_ON
    THEN BitOr(supported_features_, SUPPORT_ON)
    ELSE IF control_use = CONTROL_USE_OFF
    THEN BitOr(supported_features_, SUPPORT_OFF)
    ELSE IF control_use = CONTROL_USE_STOP
    THEN BitOr(supported_features_, SUPPORT_STOP)
    ELSE IF control_use = CONTROL_USE_LOCK
    THEN BitOr(supported_features_, SUPPORT_LOCK)
    ELSE IF control_use = CONTROL_USE_UNLOCK
    THEN BitOr(supported_features_, SUPPORT_UNLOCK)
    ELSE IF control_use = CONTROL_USE_DIM
    THEN BitOr(supported_features_, SUPPORT_DIM)
    ELSE IF control_use = CONTROL_USE_FAN
    THEN BitOr(supported_features_, SUPPORT_FAN)
    ELSE IF control_use = CONTROL_USE_COOL_SETPOINT
            \/ control_use = CONTROL_USE_HEAT_SETPOINT
    THEN BitOr(supported_features_, SUPPORT_SETPOINT)
    ELSE IF control_use = CONTROL_USE_THERM_MODE_COOL
            \/ control_use = CONTROL_USE_THERM_MODE_HEAT
            \/ control_use = CONTROL_USE_THERM_MODE_OFF
    THEN BitOr(supported_features_, SUPPORT_THERM_MODES)
    ELSE supported_features_

\* for pair in control_pairs, from the i-th pair on
RECURSIVE FeatureLoop(_, _, _)
FeatureLoop(control_pairs, i, supported_features_) ==
    IF i > Len(control_pairs) THEN supported_features_
    ELSE FeatureLoop(control_pairs, i + 1,
                     FeatureStep(supported_features_,
                                 control_pairs[i].ControlUse))

get_supported_features(control_item) ==
    IF control_item = None THEN SUPPORT_STATUS
    ELSE IF control_item.ControlPairs = NoneList THEN SUPPORT_STATUS
    ELSE FeatureLoop(control_item.ControlPairs, 1, SUPPORT_STATUS)

\* ------------------------------------------------------------------------
\* Control-pair lookups (devices.py:427-450)
\* ------------------------------------------------------------------------
\* next((x for x in xs if x[key] = v), None), from the i-th element on
RECURSIVE NextWith(_, _, _, _)
NextWith(xs, key, v, i) ==
    IF i > Len(xs) THEN None
    ELSE IF xs[i][key] = v THEN xs[i]
    ELSE NextWith(xs, key, v, i + 1)

get_control_pair_by_control_use(item, control_use) ==
    IF item = None THEN None
    ELSE NextWith(item.ControlPairs, "ControlUse", control_use, 1)

get_control_value_by_control_use(item, control_use) ==
    LET control_pair == get_control_pair_by_control_use(item, control_use)
    IN  IF control_pair # None THEN control_pair.ControlValue ELSE None

get_range(control_pair) ==
    IF control_pair = None THEN <<0, 0>>
    ELSE <<control_pair.Range.RangeStart, control_pair.Range.RangeEnd>>

get_range_for(control_item, control_use) ==
    get_range(get_control_pair_by_control_use(control_item, control_use))

\* ------------------------------------------------------------------------
\* Device classes (devices.py:38-299): base class and own mutators
\* ------------------------------------------------------------------------
Classes ==
    {"HomeSeerStatusDevice", "HomeSeerSetPointDevice",
     "HomeSeerSwitchableDevice", "HomeSeerDimmableDevice",
     "HomeSeerCoverDevice", "HomeSeerFanDevice", "HomeSeerLockableDevice",
     "HomeSeerClimateDevice"}

BaseClass(cls) ==
    CASE cls = "HomeSeerSetPointDevice"   -> "HomeSeerStatusDevice"
      [] cls = "HomeSeerSwitchableDevice" -> "HomeSeerStatusDevice"
      [] cls = "HomeSeerDimmableDevice"   -> "HomeSeerSwitchableDevice"
      [] cls = "HomeSeerCoverDevice"      -> "HomeSeerDimmableDevice"
      [] cls = "HomeSeerFanDevice"        -> "HomeSeerSwitchableDevice"
      [] cls = "HomeSeerLockableDevice"   -> "HomeSeerStatusDevice"
      [] cls = "HomeSeerClimateDevice"    -> "HomeSeerSwitchableDevice"
      [] OTHER                            -> "object"

\* the mutators (async methods) a class defines itself
OwnMutators(cls) ==
    CASE cls = "HomeSeerStatusDevice"     -> {"set_value"}
      [] cls = "HomeSeerSetPointDevice"   -> {"set_setpoint"}
      [] cls = "HomeSeerSwitchableDevice" -> {"on", "off"}
      [] cls = "HomeSeerDimmableDevice"   -> {"dim"}
      [] cls = "HomeSeerCoverDevice"      -> {"stop"}
      [] cls = "HomeSeerFanDevice"        -> {"speed"}
      [] cls = "HomeSeerLockableDevice"   -> {"lock", "unlock"}
      [] OTHER                            -> {}

\* the mutators an instance of a class has, its own and the inherited ones
RECURSIVE Mutators(_)
Mutators(cls) ==
    IF cls = "object" THEN {}
    ELSE OwnMutators(cls) \cup Mutators(BaseClass(cls))

\* ------------------------------------------------------------------------
\* Device factory (devices.py:301-425)
\* ------------------------------------------------------------------------
build_setpoint_device(control_item) ==
    LET cool == get_control_pair_by_control_use(control_item,
                                                CONTROL_USE_COOL_SETPOINT)
        pair == IF cool = None
                THEN get_control_pair_by_control_use(control_item,
                                                CONTROL_USE_HEAT_SETPOINT)
                ELSE cool
        range == get_range(pair)
    IN  [cls |-> "HomeSeerSetPointDevice",
         set_min |-> range[1], set_max |-> range[2]]

build_lockable_device(control_item) ==
    [cls |-> "HomeSeerLockableDevice",
     lock_value |->
         get_control_value_by_control_use(control_item, CONTROL_USE_LOCK),
     unlock_value |->
         get_control_value_by_control_use(control_item, CONTROL_USE_UNLOCK)]

build_switch_device(control_item) ==
    [cls |-> "HomeSeerSwitchableDevice",
     on_value |->
         get_control_value_by_control_use(control_item, CONTROL_USE_ON),
     off_value |->
         get_control_value_by_control_use(control_item, CONTROL_USE_OFF)]

build_dimmable_device(control_item) ==
    LET range == get_range_for(control_item, CONTROL_USE_DIM)
    IN  [cls |-> "HomeSeerDimmableDevice",
         on_value |->
             get_control_value_by_control_use(control_item, CONTROL_USE_ON),
         off_value |->
             get_control_value_by_control_use(control_item, CONTROL_USE_OFF),
         dim_start_value |-> range[1], dim_end_value |-> range[2]]

build_cover_device(control_item) ==
    LET range == get_range_for(control_item, CONTROL_USE_DIM)
    IN  [cls |-> "HomeSeerCoverDevice",
         on_value |->
             get_control_value_by_control_use(control_item, CONTROL_USE_ON),
         off_value |->
             get_control_value_by_control_use(control_item, CONTROL_USE_OFF),
         stop_value |->
             get_control_value_by_control_use(control_item, CONTROL_USE_STOP),
         dim_start_value |-> range[1], dim_end_value |-> range[2]]

build_fan_device(control_item) ==
    [cls |-> "HomeSeerFanDevice",
     on_value |->
         get_control_value_by_control_use(control_item, CONTROL_USE_ON),
     off_value |->
         get_control_value_by_control_use(control_item, CONTROL_USE_OFF)]

\* build_device matching On|Off wherever both flags are set
build_device_on_off_subset(item, supported_features_) ==
    IF supported_features_ % 4 = BitOr(SUPPORT_ON, SUPPORT_OFF)
       /\ supported_features_ \notin
              {BitOr(BitOr(SUPPORT_ON, SUPPORT_OFF), SUPPORT_DIM),
               BitOr(BitOr(BitOr(SUPPORT_ON, SUPPORT_OFF), SUPPORT_DIM),
                     SUPPORT_STOP),
               BitOr(BitOr(SUPPORT_ON, SUPPORT_OFF), SUPPORT_STOP),
               BitOr(BitOr(SUPPORT_ON, SUPPORT_OFF), SUPPORT_FAN)}
    THEN build_switch_device(item)
    ELSE IF supported_features_
            = BitOr(BitOr(SUPPORT_ON, SUPPORT_OFF), SUPPORT_DIM)
    THEN build_dimmable_device(item)
    ELSE IF supported_features_
            = BitOr(BitOr(BitOr(SUPPORT_ON, SUPPORT_OFF), SUPPORT_DIM),
                    SUPPORT_STOP)
    THEN build_cover_device(item)
    ELSE IF supported_features_
            = BitOr(BitOr(SUPPORT_ON, SUPPORT_OFF), SUPPORT_STOP)
    THEN build_cover_device(item)
    ELSE IF supported_features_
            = BitOr(BitOr(SUPPORT_ON, SUPPORT_OFF), SUPPORT_FAN)
    THEN build_fan_device(item)
    ELSE IF supported_features_ = BitOr(SUPPORT_LOCK, SUPPORT_UNLOCK)
    THEN build_lockable_device(item)
    ELSE IF supported_features_ = SUPPORT_SETPOINT
    THEN build_setpoint_device(item)
    ELSE [cls |-> "HomeSeerStatusDevice"]

build_device(item, supported_features_) ==
    IF supported_features_ = BitOr(SUPPORT_ON, SUPPORT_OFF)
    THEN build_switch_device(item)
    ELSE IF supported_features_
            = BitOr(BitOr(SUPPORT_ON, SUPPORT_OFF), SUPPORT_DIM)
    THEN build_dimmable_device(item)
    ELSE IF supported_features_
            = BitOr(BitOr(BitOr(SUPPORT_ON, SUPPORT_OFF), SUPPORT_DIM),
                    SUPPORT_STOP)
    THEN build_cover_device(item)
    ELSE IF supported_features_
            = BitOr(BitOr(SUPPORT_ON, SUPPORT_OFF), SUPPORT_STOP)
    THEN build_cover_device(item)
    ELSE IF supported_features_
            = BitOr(BitOr(SUPPORT_ON, SUPPORT_OFF), SUPPORT_FAN)
    THEN build_fan_device(item)
    ELSE IF supported_features_ = BitOr(SUPPORT_LOCK, SUPPORT_UNLOCK)
    THEN build_lockable_device(item)
    ELSE IF supported_features_ = SUPPORT_SETPOINT
    THEN build_setpoint_device(item)
    ELSE [cls |-> "HomeSeerStatusDevice"]

\* the item of control_data with the device's ref (devices.py:323)
ControlItem(raw_data_, control_data_) ==
    NextWith(control_data_, "ref", raw_data_.ref, 1)

get_device(raw_data_, control_data_) ==
    LET item == ControlItem(raw_data_, control_data_)
    IN  build_device(item, get_supported_features(item))

\* ------------------------------------------------------------------------
\* Inputs: raw device records and control descriptions
\* ------------------------------------------------------------------------
\* a raw device record of the device under consideration, as the JSON API
\* delivers it, with value v
RawRecord(v) ==
    [ref |-> 1, name |-> "Lamp", location |-> "Room", location2 |-> "Floor",
     value |-> v, status |-> "st"]

RecognizedCodes ==
    {CONTROL_USE_ON, CONTROL_USE_OFF, CONTROL_USE_DIM, CONTROL_USE_STOP,
     CONTROL_USE_HEAT_SETPOINT, CONTROL_USE_COOL_SETPOINT,
     CONTROL_USE_THERM_MODE_OFF, CONTROL_USE_THERM_MODE_HEAT,
     CONTROL_USE_THERM_MODE_COOL, CONTROL_USE_LOCK, CONTROL_USE_UNLOCK,
     CONTROL_USE_FAN}

\* control-use codes of the API that devices.py does not know
UnknownCodes == {4}

\* a control pair as the JSON API delivers it
ControlPair(control_use, control_value, range) ==
    [ControlUse |-> control_use, ControlValue |-> control_value,
     Range |-> range]

Range(start, end) == [RangeStart |-> start, RangeEnd |-> end]

\* the pair the factory inputs use for a control-use code
SamplePair(control_use) ==
    CASE control_use = CONTROL_USE_ON  -> ControlPair(control_use, 255, None)
      [] control_use = CONTROL_USE_OFF -> ControlPair(control_use, 0, None)
      [] control_use = CONTROL_USE_DIM ->
             ControlPair(control_use, 1, Range(0, 99))
      [] control_use = CONTROL_USE_HEAT_SETPOINT ->
             ControlPair(control_use, 20, Range(5, 30))
      [] control_use = CONTROL_USE_COOL_SETPOINT ->
             ControlPair(control_use, 24, Range(16, 32))
      [] OTHER -> ControlPair(control_use, 100 + control_use, None)

\* the elements of a set of integers in ascending order
RECURSIVE Ascending(_)
Ascending(S) ==
    IF S = {} THEN <<>>
    ELSE LET m == CHOOSE x \in S : \A y \in S : x <= y
         IN  <<m>> \o Ascending(S \ {m})

Reverse(s) == [i \in 1..Len(s) |-> s[Len(s) + 1 - i]]

Orders == {"ascending", "descending", "duplicated"}

\* the control pairs of a set of control-use codes, in one of the orders
SamplePairs(codes, order) ==
    LET asc == [i \in 1..Cardinality(codes) |->
                   SamplePair(Ascending(codes)[i])]
    IN  CASE order = "ascending"  -> asc
          [] order = "descending" -> Reverse(asc)
          [] order = "duplicated" -> asc \o Reverse(asc)

\* the control description of another device
OtherItem == [ref |-> 2, ControlPairs |-> <<SamplePair(CONTROL_USE_ON)>>]

\* the control description of the device under consideration
Item(control_pairs) == [ref |-> 1, ControlPairs |-> control_pairs]

\* ------------------------------------------------------------------------
\* Factory specification: the classifier and the factory applied to every
\* set of control-use codes
\* ------------------------------------------------------------------------
NoCall == [op |-> "none"]

InitCommon ==
    /\ pc = "start"
    /\ supported_features = None
    /\ device = None
    /\ raw_data = RawRecord(0)
    /\ update_callback = None
    /\ suppress_update_callback = FALSE
    /\ call = NoCall
    /\ requests = <<>>
    /\ notified = <<>>
    /\ n_updates = 0
    /\ n_notified = 0
    /\ devices = <<>>
    /\ thermostat = None

InitFactory ==
    /\ InitCommon
    /\ \/ control_data = <<>>
       \/ control_data = <<OtherItem>>
       \/ control_data = <<OtherItem, Item(NoneList)>>
       \/ \E codes \in SUBSET (RecognizedCodes \cup UnknownCodes),
             order \in Orders :
             control_data = <<OtherItem, Item(SamplePairs(codes, order))>>

\* supported_features = get_supported_features(item)
GetSupportedFeatures ==
    /\ pc = "start"
    /\ supported_features' =
           get_supported_features(ControlItem(raw_data, control_data))
    /\ call' = [op |-> "get_supported_features"]
    /\ pc' = "classified"
    /\ UNCHANGED <<control_data, device, raw_data, update_callback,
                   suppress_update_callback, requests, notified, n_updates,
                   n_notified, devices, thermostat>>

\* device = build_device(raw_data, item, request, supported_features)
BuildDevice ==
    /\ pc = "classified"
    /\ device' = build_device(ControlItem(raw_data, control_data),
                              supported_features)
    /\ call' = [op |-> "build_device"]
    /\ pc' = "built"
    /\ UNCHANGED <<control_data, supported_features, raw_data,
                   update_callback, suppress_update_callback, requests,
                   notified, n_updates, n_notified, devices, thermostat>>

\* device = get_device(raw_data, control_data, request)
GetDevice ==
    /\ pc = "start"
    /\ device' = get_device(raw_data, control_data)
    /\ call' = [op |-> "get_device"]
    /\ pc' = "built"
    /\ UNCHANGED <<control_data, supported_features, raw_data,
                   update_callback, suppress_update_callback, requests,
                   notified, n_updates, n_notified, devices, thermostat>>

NextFactory == GetSupportedFeatures \/ BuildDevice \/ GetDevice

SpecFactory == InitFactory /\ [][NextFactory]_vars

\* ------------------------------------------------------------------------
\* Device operations (devices.py:155-291).  A mutator yields what it
\* raised ("none" when it returned normally) and the requests it sent.
\* ------------------------------------------------------------------------
Returned(requests_) == [raised |-> "none", requests |-> requests_]

Raised(error) == [raised |-> error, requests |-> <<>>]

\* the percent scale of dim and speed (devices.py:235, 238, 264, 267)
PercentScale == 100

get_params(raw_data_, value) ==
    [request |-> "controldevicebyvalue", ref |-> raw_data_.ref,
     value |-> value]

\* self.ref is read from the raw record and fails when the key is missing
set_value(raw_data_, value) ==
    IF "ref" \in DOMAIN raw_data_
    THEN Returned(<<get_params(raw_data_, value)>>)
    ELSE Raised("KeyError")

\* set_setpoint with strict comparisons
set_setpoint_strict(d, raw_data_, value) ==
    IF d.set_min < value /\ value < d.set_max
    THEN set_value(raw_data_, value)
    ELSE Returned(<<>>)

set_setpoint(d, raw_data_, value) ==
    IF d.set_min <= value /\ value <= d.set_max
    THEN set_value(raw_data_, value)
    ELSE Returned(<<>>)

on(d, raw_data_) == set_value(raw_data_, d.on_value)

off(d, raw_data_) == set_value(raw_data_, d.off_value)

dim_supported(d) == d.dim_start_value # d.dim_end_value

dim_range(d) == d.dim_end_value - d.dim_start_value

\* dim with the upper bound of the percent check off by one
dim_accepting_101(d, raw_data_, percent) ==
    IF ~dim_supported(d) THEN Returned(<<>>)
    ELSE IF percent < 0 \/ percent > PercentScale + 1
    THEN Raised("ValueError")
    ELSE LET step  == FloatDiv(dim_range(d), PercentScale)
             value == FloatTrunc(FloatMulInt(step, percent))
                      + d.dim_start_value
         IN  set_value(raw_data_, value)

\* dim without the offset of the range start
dim_without_start(d, raw_data_, percent) ==
    IF ~dim_supported(d) THEN Returned(<<>>)
    ELSE IF percent < 0 \/ percent > PercentScale THEN Raised("ValueError")
    ELSE LET step  == FloatDiv(dim_range(d), PercentScale)
             value == FloatTrunc(FloatMulInt(step, percent))
         IN  set_value(raw_data_, value)

\* dim with the percent check ahead of the dim_supported test
dim_checking_percent_first(d, raw_data_, percent) ==
    IF percent < 0 \/ percent > PercentScale THEN Raised("ValueError")
    ELSE IF ~dim_supported(d) THEN Returned(<<>>)
    ELSE LET step  == FloatDiv(dim_range(d), PercentScale)
             value == FloatTrunc(FloatMulInt(step, percent))
                      + d.dim_start_value
         IN  set_value(raw_data_, value)

dim(d, raw_data_, percent) ==
    IF ~dim_supported(d) THEN Returned(<<>>)
    ELSE IF percent < 0 \/ percent > PercentScale THEN Raised("ValueError")
    ELSE LET step  == FloatDiv(dim_range(d), PercentScale)
             value == FloatTrunc(FloatMulInt(step, percent))
                      + d.dim_start_value
         IN  set_value(raw_data_, value)

stop(d, raw_data_) == set_value(raw_data_, d.stop_value)

speed(d, raw_data_, percent) ==
    IF percent < 0 \/ percent > PercentScale THEN Raised("ValueError")
    ELSE LET value == FloatTrunc(FloatMulInt(FloatDiv(percent, PercentScale),
                                             d.on_value))
         IN  set_value(raw_data_, value)

lock(d, raw_data_) == set_value(raw_data_, d.lock_value)

unlock(d, raw_data_) == set_value(raw_data_, d.unlock_value)

\* the value property of a device: the value of its record.  The records
\* carry integer values, whose text holds no "." and which int() returns
\* as they are.
device_value(raw_data_) == raw_data_.value

\* an integer result of a property that yields an integer or a float
IntResult(n) == [int |-> n]

IsInt(x) == "int" \in DOMAIN x

\* the result is the integer 100 or 0, or the float of the true division
dim_percent(d, raw_data_) ==
    IF device_value(raw_data_) = d.on_value THEN IntResult(PercentScale)
    ELSE IF device_value(raw_data_) = d.off_value THEN IntResult(0)
    ELSE IF ~dim_supported(d) THEN IntResult(0)
    ELSE FloatDiv(PercentScale
                      * (device_value(raw_data_) - d.dim_start_value),
                  dim_range(d))

\* ------------------------------------------------------------------------
\* Update propagation (devices.py:131-153)
\* ------------------------------------------------------------------------
\* the keys the debug message of update_data reads from the current record
LoggedKeys == {"location2", "location", "name", "ref"}

\* update_data yields what it raised, the record the device holds
\* afterwards and the callback invocations it made, each with the record
\* the callback finds in the device when it runs
\* update_data returning at once when it is given no record
update_data_requiring_data(raw_data_, callback, suppress, new_data, connection_flag) ==
    IF new_data = None
    THEN [raised |-> "none", raw_data |-> raw_data_, notified |-> <<>>]
    ELSE IF ~(LoggedKeys \subseteq DOMAIN raw_data_)
    THEN [raised |-> "KeyError", raw_data |-> raw_data_, notified |-> <<>>]
    ELSE IF connection_flag /\ suppress
    THEN [raised |-> "none", raw_data |-> new_data, notified |-> <<>>]
    ELSE IF callback # None
    THEN [raised |-> "none", raw_data |-> new_data,
          notified |-> <<[callback |-> callback, seen |-> new_data]>>]
    ELSE [raised |-> "none", raw_data |-> new_data, notified |-> <<>>]

update_data(raw_data_, callback, suppress, new_data, connection_flag) ==
    IF new_data # None /\ ~(LoggedKeys \subseteq DOMAIN raw_data_)
    THEN [raised |-> "KeyError", raw_data |-> raw_data_, notified |-> <<>>]
    ELSE LET current == IF new_data # None THEN new_data ELSE raw_data_
         IN  IF connection_flag /\ suppress
             THEN [raised |-> "none", raw_data |-> current,
                   notified |-> <<>>]
             ELSE IF callback # None
             THEN [raised |-> "none", raw_data |-> current,
                   notified |-> <<[callback |-> callback,
                                   seen |-> current]>>]
             ELSE [raised |-> "none", raw_data |-> current,
                   notified |-> <<>>]

\* ------------------------------------------------------------------------
\* Control specification: one device built by get_device, and its mutators
\* ------------------------------------------------------------------------
\* how far below 0 and above PercentScale the percent arguments go
PercentMargin == 2

Percents == (0 - PercentMargin)..(PercentScale + PercentMargin)

\* the values given to set_value and set_setpoint
MaxValue == 34

Values == 0..MaxValue

\* the Dim ranges of the devices
DimRanges == {Range(s, e) : s \in {0, 10}, e \in {0, 29, 99, 100, 110}}

\* the ranges of the setpoint pairs
SetpointRanges == {Range(5, 30), Range(16, 32), Range(20, 20)}

OnPair == SamplePair(CONTROL_USE_ON)

OffPair == SamplePair(CONTROL_USE_OFF)

DevicePairs ==
    {<<>>, <<OnPair, OffPair>>,
     <<OnPair, OffPair, SamplePair(CONTROL_USE_STOP)>>,
     <<OnPair, OffPair, SamplePair(CONTROL_USE_FAN)>>,
     <<SamplePair(CONTROL_USE_LOCK), SamplePair(CONTROL_USE_UNLOCK)>>}
    \cup {<<OnPair, OffPair, ControlPair(CONTROL_USE_DIM, 1, r)>> :
             r \in DimRanges}
    \cup {<<ControlPair(CONTROL_USE_DIM, 1, r), OnPair, OffPair,
            SamplePair(CONTROL_USE_STOP)>> : r \in DimRanges}
    \cup {<<ControlPair(CONTROL_USE_HEAT_SETPOINT, 20, r)>> :
             r \in SetpointRanges}
    \cup {<<ControlPair(CONTROL_USE_HEAT_SETPOINT, 20, Range(0, 1)),
            ControlPair(CONTROL_USE_COOL_SETPOINT, 24, r)>> :
             r \in SetpointRanges}

Init ==
    /\ InitCommon
    /\ \E control_pairs \in DevicePairs :
          control_data = <<OtherItem, Item(control_pairs)>>

\* the device is built by get_device before anything is called on it
Build ==
    /\ pc = "start"
    /\ device' = get_device(raw_data, control_data)
    /\ call' = [op |-> "get_device"]
    /\ pc' = "ready"
    /\ UNCHANGED <<control_data, supported_features, raw_data,
                   update_callback, suppress_update_callback, requests,
                   notified, n_updates, n_notified, devices, thermostat>>

\* a mutator call that caches the value it sent in the device's record
MutateCaching(op, arg, result) ==
    /\ pc = "ready"
    /\ op \in Mutators(device.cls)
    /\ call' = [op |-> op, arg |-> arg, raised |-> result.raised]
    /\ requests' = result.requests
    /\ notified' = <<>>
    /\ raw_data' = IF result.requests = <<>> THEN raw_data
                   ELSE [raw_data EXCEPT !.value = result.requests[1].value]
    /\ UNCHANGED <<pc, control_data, supported_features, device,
                   update_callback, suppress_update_callback, n_updates,
                   n_notified, devices, thermostat>>

\* a mutator call: it changes nothing of the device; call and requests
\* record what was called, what it raised and what it sent
Mutate(op, arg, result) ==
    /\ pc = "ready"
    /\ op \in Mutators(device.cls)
    /\ call' = [op |-> op, arg |-> arg, raised |-> result.raised]
    /\ requests' = result.requests
    /\ notified' = <<>>
    /\ UNCHANGED <<pc, control_data, supported_features, device, raw_data,
                   update_callback, suppress_update_callback, n_updates,
                   n_notified, devices, thermostat>>

SetValue == \E value \in Values :
    Mutate("set_value", value, set_value(raw_data, value))

SetSetpoint == \E value \in Values :
    Mutate("set_setpoint", value, set_setpoint(device, raw_data, value))

On == Mutate("on", 0, on(device, raw_data))

Off == Mutate("off", 0, off(device, raw_data))

Dim == \E percent \in Percents :
    Mutate("dim", percent, dim(device, raw_data, percent))

Stop == Mutate("stop", 0, stop(device, raw_data))

Speed == \E percent \in Percents :
    Mutate("speed", percent, speed(device, raw_data, percent))

Lock == Mutate("lock", 0, lock(device, raw_data))

Unlock == Mutate("unlock", 0, unlock(device, raw_data))

\* the update the hub pushes after a command: update_data with the device's
\* record carrying the value of the request that was sent.  The session
\* that is modelled ends with it.
ReadBack ==
    LET new_data == [raw_data EXCEPT !.value = requests[1].value]
        result   == update_data(raw_data, update_callback,
                                suppress_update_callback, new_data, FALSE)
    IN  /\ pc = "ready"
        /\ requests # <<>>
        /\ raw_data' = result.raw_data
        /\ call' = [op |-> "update_data", new_data |-> new_data,
                    connection_flag |-> FALSE, raised |-> result.raised]
        /\ requests' = <<>>
        /\ notified' = result.notified
        /\ n_updates' = n_updates + 1
        /\ n_notified' = n_notified + Len(result.notified)
        /\ pc' = "done"
        /\ UNCHANGED <<control_data, supported_features, device,
                       update_callback, suppress_update_callback, devices,
                       thermostat>>

Next ==
    \/ Build
    \/ SetValue
    \/ SetSetpoint
    \/ On
    \/ Off
    \/ Dim
    \/ Stop
    \/ Speed
    \/ Lock
    \/ Unlock
    \/ ReadBack

Spec == Init /\ [][Next]_vars

\* ------------------------------------------------------------------------
\* Update specification: one device, registrations and updates
\* ------------------------------------------------------------------------
\* update_data calls allowed after a registration
MaxUpdates == 3

\* the values of the records of the push stream
MaxRecordValue == 1

Callbacks == {[callback |-> "first"], [callback |-> "second"]}

Without(record, key) == [k \in DOMAIN record \ {key} |-> record[k]]

WellFormedRecords == {RawRecord(v) : v \in 0..MaxRecordValue}

\* records of the push stream that lack a key
MalformedRecords ==
    {Without(RawRecord(MaxRecordValue), key) :
        key \in LoggedKeys \cup {"status"}}

UpdateRecords == WellFormedRecords \cup MalformedRecords

InitUpdate ==
    /\ InitCommon
    /\ control_data = <<OtherItem, Item(<<OnPair, OffPair>>)>>

\* register_update_callback keeping the callback registered first
RegisterUpdateCallbackOnce ==
    \E callback \in Callbacks, suppress_on_connection \in BOOLEAN :
        /\ pc = "ready"
        /\ suppress_update_callback' = suppress_on_connection
        /\ update_callback' = IF update_callback = None THEN callback
                              ELSE update_callback
        /\ call' = [op |-> "register_update_callback", callback |-> callback,
                    suppress_on_connection |-> suppress_on_connection]
        /\ requests' = <<>>
        /\ notified' = <<>>
        /\ n_updates' = 0
        /\ n_notified' = 0
        /\ UNCHANGED <<pc, control_data, supported_features, device,
                       raw_data, devices, thermostat>>

RegisterUpdateCallback ==
    \E callback \in Callbacks, suppress_on_connection \in BOOLEAN :
        /\ pc = "ready"
        /\ suppress_update_callback' = suppress_on_connection
        /\ update_callback' = callback
        /\ call' = [op |-> "register_update_callback", callback |-> callback,
                    suppress_on_connection |-> suppress_on_connection]
        /\ requests' = <<>>
        /\ notified' = <<>>
        /\ n_updates' = 0
        /\ n_notified' = 0
        /\ UNCHANGED <<pc, control_data, supported_features, device,
                       raw_data, devices, thermostat>>

UpdateData ==
    \E new_data \in UpdateRecords \cup {None}, connection_flag \in BOOLEAN :
        LET result == update_data(raw_data, update_callback,
                                  suppress_update_callback, new_data,
                                  connection_flag)
        IN  /\ pc = "ready"
            /\ n_updates < MaxUpdates
            /\ raw_data' = result.raw_data
            /\ call' = [op |-> "update_data", new_data |-> new_data,
                        connection_flag |-> connection_flag,
                        raised |-> result.raised]
            /\ requests' = <<>>
            /\ notified' = result.notified
            /\ n_updates' = n_updates + 1
            /\ n_notified' = n_notified + Len(result.notified)
            /\ UNCHANGED <<pc, control_data, supported_features, device,
                           update_callback, suppress_update_callback,
                           devices, thermostat>>

NextUpdate == Build \/ RegisterUpdateCallback \/ UpdateData

SpecUpdate == InitUpdate /\ [][NextUpdate]_vars

\* ------------------------------------------------------------------------
\* Observed device specification: one device of each variant, its mutators,
\* registrations, and the update that follows a command
\* ------------------------------------------------------------------------
\* one control-pair list for each variant build_device can return
VariantPairs ==
    {<<>>, <<OnPair, OffPair>>,
     <<OnPair, OffPair, SamplePair(CONTROL_USE_DIM)>>,
     <<OnPair, OffPair, SamplePair(CONTROL_USE_STOP)>>,
     <<OnPair, OffPair, SamplePair(CONTROL_USE_DIM),
       SamplePair(CONTROL_USE_STOP)>>,
     <<OnPair, OffPair, SamplePair(CONTROL_USE_FAN)>>,
     <<SamplePair(CONTROL_USE_LOCK), SamplePair(CONTROL_USE_UNLOCK)>>,
     <<SamplePair(CONTROL_USE_HEAT_SETPOINT)>>}

InitObserved ==
    /\ InitCommon
    /\ \E control_pairs \in VariantPairs :
          control_data = <<OtherItem, Item(control_pairs)>>

NextObserved == Next \/ RegisterUpdateCallback

SpecObserved == InitObserved /\ [][NextObserved]_vars

\* ------------------------------------------------------------------------
\* Thermostat resolution (devices.py:452-464)
\* ------------------------------------------------------------------------
\* what the device_type_string property gives for an empty type string
NoneString == "<None>"

device_type_string(raw_data_) ==
    IF raw_data_.device_type_string # ""
    THEN raw_data_.device_type_string
    ELSE NoneString

\* x in xs, for a list xs
InList(x, xs) == \E i \in 1..Len(xs) : xs[i] = x

\* next((x for x in xs if x satisfies the test), None), from the i-th
\* element on; matching is the set of the elements that satisfy the test
RECURSIVE NextWhere(_, _, _)
NextWhere(xs, matching, i) ==
    IF i > Len(xs) THEN None
    ELSE IF xs[i] \in matching THEN xs[i]
    ELSE NextWhere(xs, matching, i + 1)

get_thermostat(thermostat_, devices_) ==
    LET children_ids == thermostat_.associated_devices
        InChildren(dev) == InList(dev.ref, children_ids)
        children == SelectSeq(devices_, InChildren)
        all == {children[i] : i \in 1..Len(children)}
        WithType(type_string) ==
            {x \in all : device_type_string(x) = type_string}
        WithTypeAndName(type_string, name) ==
            {x \in all : /\ device_type_string(x) = type_string
                         /\ x.name = name}
        mode == NextWhere(children, WithType("Z-Wave Mode"), 1)
        heater == NextWhere(children, WithType("Z-Wave Switch"), 1)
        heating_setpoint ==
            NextWhere(children, WithType("Z-Wave Heating  Setpoint"), 1)
        cooling_setpoint ==
            NextWhere(children, WithType("Z-Wave Cooling  Setpoint"), 1)
        energy_setpoint ==
            NextWhere(children,
                      WithType("Z-Wave Energy Save Heating Setpoint"), 1)
        air_temp ==
            NextWhere(children,
                      WithTypeAndName("Z-Wave Temperature",
                                      "Thermostat Air Temperature"), 1)
        floor_temp ==
            NextWhere(children,
                      WithTypeAndName("Z-Wave Temperature",
                                      "Floor Temperature"), 1)
    IN  None

\* ------------------------------------------------------------------------
\* Thermostat specification: get_thermostat on a root and a device table
\* ------------------------------------------------------------------------
\* the devices of the table besides the root
MaxDevices == 3

\* the type string and name a device of the table can have
DeviceKinds ==
    {<<"Z-Wave Mode", "Mode">>, <<"Z-Wave Switch", "Heater">>,
     <<"Z-Wave Heating  Setpoint", "Heating">>,
     <<"Z-Wave Cooling  Setpoint", "Cooling">>,
     <<"Z-Wave Temperature", "Thermostat Air Temperature">>,
     <<"Z-Wave Temperature", "Floor Temperature">>,
     <<"", "Virtual">>}

TableDevice(ref, kind) ==
    [ref |-> ref, name |-> kind[2], location |-> "Room",
     location2 |-> "Floor", value |-> 0, status |-> "st",
     device_type_string |-> kind[1], associated_devices |-> <<1>>]

InitThermostat ==
    /\ pc = "start"
    /\ control_data = <<>>
    /\ supported_features = None
    /\ device = None
    /\ update_callback = None
    /\ suppress_update_callback = FALSE
    /\ call = NoCall
    /\ requests = <<>>
    /\ notified = <<>>
    /\ n_updates = 0
    /\ n_notified = 0
    /\ thermostat = None
    /\ \E kinds \in [1..MaxDevices -> DeviceKinds],
          children \in SUBSET (2..(MaxDevices + 1)) :
          /\ devices = [i \in 1..MaxDevices |-> TableDevice(i + 1, kinds[i])]
          /\ raw_data = [ref |-> 1, name |-> "Thermostat",
                         location |-> "Room", location2 |-> "Floor",
                         value |-> 0, status |-> "st",
                         device_type_string |-> "Z-Wave Thermostat",
                         associated_devices |-> Ascending(children)]

GetThermostat ==
    /\ pc = "start"
    /\ thermostat' = get_thermostat(raw_data, devices)
    /\ call' = [op |-> "get_thermostat"]
    /\ pc' = "done"
    /\ UNCHANGED <<control_data, supported_features, device, raw_data,
                   update_callback, suppress_update_callback, requests,
                   notified, n_updates, n_notified, devices>>

NextThermostat == GetThermostat

SpecThermostat == InitThermostat /\ [][NextThermostat]_vars

\* ========================================================================
\* Properties
\* ========================================================================
Flags ==
    {SUPPORT_ON, SUPPORT_OFF, SUPPORT_LOCK, SUPPORT_UNLOCK, SUPPORT_DIM,
     SUPPORT_FAN, SUPPORT_STOP, SUPPORT_SETPOINT, SUPPORT_THERM_MODES}

\* the flags set in a mask
FlagsOf(mask) == {f \in Flags : (mask \div f) % 2 = 1}

RECURSIVE SetSum(_)
SetSum(S) ==
    IF S = {} THEN 0
    ELSE LET x == CHOOSE y \in S : TRUE IN x + SetSum(S \ {x})

\* the dispatch table of the factory, on sets of flags
TableVariant(flags) ==
    CASE flags = {SUPPORT_ON, SUPPORT_OFF} -> "HomeSeerSwitchableDevice"
      [] flags = {SUPPORT_ON, SUPPORT_OFF, SUPPORT_DIM} ->
             "HomeSeerDimmableDevice"
      [] flags = {SUPPORT_ON, SUPPORT_OFF, SUPPORT_DIM, SUPPORT_STOP} ->
             "HomeSeerCoverDevice"
      [] flags = {SUPPORT_ON, SUPPORT_OFF, SUPPORT_STOP} ->
             "HomeSeerCoverDevice"
      [] flags = {SUPPORT_ON, SUPPORT_OFF, SUPPORT_FAN} ->
             "HomeSeerFanDevice"
      [] flags = {SUPPORT_LOCK, SUPPORT_UNLOCK} -> "HomeSeerLockableDevice"
      [] flags = {SUPPORT_SETPOINT} -> "HomeSeerSetPointDevice"
      [] OTHER -> "HomeSeerStatusDevice"

\* the operations of each variant
TableOperations(variant) ==
    CASE variant = "HomeSeerSwitchableDevice" -> {"set_value", "on", "off"}
      [] variant = "HomeSeerDimmableDevice" ->
             {"set_value", "on", "off", "dim"}
      [] variant = "HomeSeerCoverDevice" ->
             {"set_value", "on", "off", "dim", "stop"}
      [] variant = "HomeSeerFanDevice" -> {"set_value", "on", "off", "speed"}
      [] variant = "HomeSeerLockableDevice" ->
             {"set_value", "lock", "unlock"}
      [] variant = "HomeSeerSetPointDevice" -> {"set_value", "set_setpoint"}
      [] variant = "HomeSeerStatusDevice" -> {"set_value"}

Request(value) ==
    [request |-> "controldevicebyvalue", ref |-> raw_data.ref,
     value |-> value]

OutOfRange(percent) == percent < 0 \/ percent > 100

\* C2 as stated: on every Dimmable or Cover device, dim with a percent
\* below 0 or above 100 fails with a domain error and sends no request.
C2_Original ==
    (call.op = "dim" /\ OutOfRange(call.arg)) =>
        (call.raised = "ValueError" /\ requests = <<>>)

\* C2: dim with a percent below 0 or above 100 sends no request; it fails
\* with a domain error where dim is supported (dimStart # dimEnd), and
\* returns silently where it is not.
C2_DimOutOfRange ==
    (call.op = "dim" /\ OutOfRange(call.arg)) =>
        /\ requests = <<>>
        /\ dim_supported(device) => call.raised = "ValueError"
        /\ ~dim_supported(device) => call.raised = "none"

\* dim(101) and dim(-1) on a device with a dim range
C2_Witness ==
    /\ call.op = "dim"
    /\ call.arg \in {-1, 101}
    /\ dim_supported(device)
    /\ call.raised = "ValueError"
    /\ requests = <<>>

Sign(n) == IF n < 0 THEN -1 ELSE IF n > 0 THEN 1 ELSE 0

\* C3 as stated: where dim is supported, dim(0) sends dimStart and dim(100)
\* sends dimEnd - step, step being a hundredth of the range, never dimEnd.
C3_Original ==
    (call.op = "dim" /\ dim_supported(device)) =>
        /\ call.arg = 0 =>
               /\ call.raised = "none"
               /\ requests = <<Request(device.dim_start_value)>>
        /\ call.arg = 100 =>
               /\ call.raised = "none"
               /\ Len(requests) = 1
               /\ 100 * requests[1].value
                      = 100 * device.dim_end_value - dim_range(device)
               /\ requests[1].value # device.dim_end_value

\* C3: where dim is supported, dim(0) sends dimStart, and dim(100) sends
\* dimEnd itself or, where the product (range / 100) * 100 of the floats
\* falls short of the range, the integer next to dimEnd on the side of
\* dimStart: 99 for the range 0..99, 28 for the range 0..29; the value is
\* never dimEnd - step.
C3_DimEndpoints ==
    (call.op = "dim" /\ dim_supported(device)) =>
        /\ call.arg = 0 =>
               /\ call.raised = "none"
               /\ requests = <<Request(device.dim_start_value)>>
        /\ call.arg = 100 =>
               /\ call.raised = "none"
               /\ Len(requests) = 1
               /\ requests[1].value \in
                      {device.dim_end_value,
                       device.dim_end_value - Sign(dim_range(device))}
               /\ 100 * requests[1].value
                      # 100 * device.dim_end_value - dim_range(device)
               /\ (device.dim_start_value = 0 /\ device.dim_end_value = 99)
                      => requests[1].value = 99
               /\ (device.dim_start_value = 0 /\ device.dim_end_value = 29)
                      => requests[1].value = 28

\* dim(100) on the range 10..99 sends 99, and dim(0) on it sends 10
C3_Witness ==
    /\ call.op = "dim"
    /\ device.dim_start_value = 10
    /\ device.dim_end_value = 99
    /\ \/ call.arg = 100 /\ requests = <<Request(99)>>
       \/ call.arg = 0 /\ requests = <<Request(10)>>

\* C4 as stated: where dim is supported, dim(percent) for percent in 0..100
\* sends exactly one request, with the value
\* floor(percent * (dimEnd - dimStart) / 100) + dimStart, also where
\* dimEnd < dimStart; on the range 0..99, dim(50) sends 49.
C4_Original ==
    (call.op = "dim" /\ dim_supported(device) /\ call.arg \in 0..100) =>
        /\ call.raised = "none"
        /\ requests =
               <<Request(((call.arg * dim_range(device)) \div 100)
                         + device.dim_start_value)>>

\* C5: set_setpoint(v) on a SetPoint device never raises; it sends no
\* request when v < min or v > max, and exactly one request carrying v
\* when min <= v <= max.
C5_SetpointBounds ==
    call.op = "set_setpoint" =>
        /\ call.raised = "none"
        /\ (call.arg < device.set_min \/ call.arg > device.set_max)
               => requests = <<>>
        /\ (device.set_min <= call.arg /\ call.arg <= device.set_max)
               => requests = <<Request(call.arg)>>

\* set_setpoint at the lower bound, at the upper bound, and outside
C5_Witness ==
    /\ call.op = "set_setpoint"
    /\ device.set_min < device.set_max
    /\ \/ call.arg = device.set_min /\ requests = <<Request(call.arg)>>
       \/ call.arg = device.set_max /\ requests = <<Request(call.arg)>>
       \/ call.arg = device.set_max + 1 /\ requests = <<>>

\* C6 as stated: on a device with a registered callback, update_data with
\* a new record replaces the record in every case; with connection_flag
\* set it skips the callback when suppression is enabled and invokes it
\* exactly once when it is disabled; without connection_flag it invokes
\* the callback exactly once whatever the suppression flag.
C6_Original ==
    (call.op = "update_data" /\ call.new_data # None
     /\ update_callback # None) =>
        /\ raw_data = call.new_data
        /\ (call.connection_flag /\ suppress_update_callback)
               => notified = <<>>
        /\ (call.connection_flag /\ ~suppress_update_callback)
               => Len(notified) = 1
        /\ ~call.connection_flag => Len(notified) = 1

\* C7 as stated: with an unsuppressed callback registered, after each
\* update the record is exactly the new record, the callback has run once
\* for that update and found the new record in the device, and the
\* callback has run as many times as there were updates.
C7_Original ==
    (update_callback # None /\ ~suppress_update_callback) =>
        /\ n_notified = n_updates
        /\ (call.op = "update_data" /\ call.new_data # None) =>
               /\ raw_data = call.new_data
               /\ notified = <<[callback |-> update_callback,
                                seen |-> call.new_data]>>

\* C8 as stated: once a malformed record (one lacking name, location,
\* location2 or ref) is the device's record, an update_data call with a
\* well-formed record returns normally, replaces the record and notifies
\* the callback.
C8_Original ==
    [][(/\ ~(LoggedKeys \subseteq DOMAIN raw_data)
        /\ call'.op = "update_data"
        /\ n_updates' = n_updates + 1
        /\ call'.new_data \in WellFormedRecords)
       => (/\ call'.raised = "none"
           /\ raw_data' = call'.new_data
           /\ (update_callback # None
               /\ ~(call'.connection_flag /\ suppress_update_callback))
                  => Len(notified') = 1)]_vars

\* the devices with the given type string (and name, where one is given)
\* among those the root names in associated_devices
Candidates(type_string, name) ==
    {devices[i] : i \in
        {j \in 1..Len(devices) :
            /\ InList(devices[j].ref, raw_data.associated_devices)
            /\ devices[j].device_type_string = type_string
            /\ name # "" => devices[j].name = name}}

Resolves(component, type_string, name) ==
    IF Candidates(type_string, name) = {}
    THEN thermostat[component] = None
    ELSE thermostat[component] \in Candidates(type_string, name)

\* C9 as stated: get_thermostat returns a result whose components mode,
\* heater, heatingSetpoint, coolingSetpoint, airTemp and floorTemp are each
\* the associated device with the matching type string (and name, for the
\* temperature sensors), or absent when there is none.
C9_Original ==
    call.op = "get_thermostat" =>
        /\ thermostat # None
        /\ Resolves("mode", "Z-Wave Mode", "")
        /\ Resolves("heater", "Z-Wave Switch", "")
        /\ Resolves("heatingSetpoint", "Z-Wave Heating  Setpoint", "")
        /\ Resolves("coolingSetpoint", "Z-Wave Cooling  Setpoint", "")
        /\ Resolves("airTemp", "Z-Wave Temperature",
                    "Thermostat Air Temperature")
        /\ Resolves("floorTemp", "Z-Wave Temperature", "Floor Temperature")

\* the flags of a control-use code
CodeFlags(control_use) ==
    CASE control_use = CONTROL_USE_ON -> {SUPPORT_ON}
      [] control_use = CONTROL_USE_OFF -> {SUPPORT_OFF}
      [] control_use = CONTROL_USE_DIM -> {SUPPORT_DIM}
      [] control_use = CONTROL_USE_STOP -> {SUPPORT_STOP}
      [] control_use = CONTROL_USE_LOCK -> {SUPPORT_LOCK}
      [] control_use = CONTROL_USE_UNLOCK -> {SUPPORT_UNLOCK}
      [] control_use = CONTROL_USE_FAN -> {SUPPORT_FAN}
      [] control_use \in {CONTROL_USE_HEAT_SETPOINT,
                          CONTROL_USE_COOL_SETPOINT} -> {SUPPORT_SETPOINT}
      [] control_use \in {CONTROL_USE_THERM_MODE_OFF,
                          CONTROL_USE_THERM_MODE_HEAT,
                          CONTROL_USE_THERM_MODE_COOL} ->
             {SUPPORT_THERM_MODES}
      [] OTHER -> {}

\* the control-use codes of a list of control pairs
CodesOf(control_pairs) ==
    {control_pairs[i].ControlUse : i \in 1..Len(control_pairs)}

HasPairs(item) == item # None /\ item.ControlPairs # NoneList

\* C10: get_supported_features gives 0 for an absent item, an absent pair
\* list and an empty pair list, and otherwise the union of the flags of
\* the recognized control-use codes in the list; the lists with the same
\* codes in another order or with duplicates give the same mask, and so
\* do the lists without the unrecognized codes.
C10_ClassifierPure ==
    pc = "classified" =>
        LET item == ControlItem(raw_data, control_data) IN
        /\ ~HasPairs(item) => supported_features = 0
        /\ HasPairs(item) =>
               LET codes == CodesOf(item.ControlPairs) IN
               /\ supported_features
                      = SetSum(UNION {CodeFlags(c) : c \in codes})
               /\ \A order \in Orders :
                      /\ get_supported_features(
                             Item(SamplePairs(codes, order)))
                             = supported_features
                      /\ get_supported_features(
                             Item(SamplePairs(codes \ UnknownCodes, order)))
                             = supported_features

\* the list Heat, Cool and an unrecognized code, each twice, gives Setpoint
C10_Witness ==
    /\ pc = "classified"
    /\ HasPairs(ControlItem(raw_data, control_data))
    /\ LET control_pairs == ControlItem(raw_data, control_data).ControlPairs
       IN  /\ Len(control_pairs) = 6
           /\ CodesOf(control_pairs)
                  = UnknownCodes \cup {CONTROL_USE_HEAT_SETPOINT,
                                       CONTROL_USE_COOL_SETPOINT}
    /\ supported_features = SUPPORT_SETPOINT

\* the rows of the dispatch table, as sets of flags
TableRows ==
    {{SUPPORT_ON, SUPPORT_OFF}, {SUPPORT_ON, SUPPORT_OFF, SUPPORT_DIM},
     {SUPPORT_ON, SUPPORT_OFF, SUPPORT_DIM, SUPPORT_STOP},
     {SUPPORT_ON, SUPPORT_OFF, SUPPORT_STOP},
     {SUPPORT_ON, SUPPORT_OFF, SUPPORT_FAN},
     {SUPPORT_LOCK, SUPPORT_UNLOCK}, {SUPPORT_SETPOINT}}

\* the codes of a list that belong to a row
CoreCodes(codes, row) ==
    {c \in codes : CodeFlags(c) # {} /\ CodeFlags(c) \subseteq row}

\* the codes of a list besides those of a row
ExtraCodes(codes, row) == codes \ CoreCodes(codes, row)

\* the codes are those of the row plus at least one further code, none of
\* which is part of a table row containing the row
CorePlusExtras(codes, row) ==
    /\ UNION {CodeFlags(c) : c \in CoreCodes(codes, row)} = row
    /\ ExtraCodes(codes, row) # {}
    /\ \A e \in ExtraCodes(codes, row) :
           \A other \in TableRows :
               row \subseteq other => CodeFlags(e) \cap other = {}

\* the codes of the control pairs get_device was given for the device
DeviceCodes == CodesOf(ControlItem(raw_data, control_data).ControlPairs)

\* C11 as stated: for a pair list with the codes of one table row plus at
\* least one further code outside every row containing it, whatever that
\* code is, get_device builds a status-only device.
C11_Original ==
    (call.op = "get_device"
     /\ HasPairs(ControlItem(raw_data, control_data))) =>
        \A row \in TableRows :
            CorePlusExtras(DeviceCodes, row) =>
                device.cls = "HomeSeerStatusDevice"

\* C11: for a pair list with the codes of one table row plus at least one
\* further code outside every row containing it, get_device builds a
\* status-only device when one of the further codes is a recognized one,
\* and the variant of the row when all of them are unrecognized codes.
C11_ExtraCodes ==
    (call.op = "get_device"
     /\ HasPairs(ControlItem(raw_data, control_data))) =>
        \A row \in TableRows :
            CorePlusExtras(DeviceCodes, row) =>
                /\ (\E e \in ExtraCodes(DeviceCodes, row) :
                        CodeFlags(e) # {})
                       => device.cls = "HomeSeerStatusDevice"
                /\ (\A e \in ExtraCodes(DeviceCodes, row) :
                        CodeFlags(e) = {})
                       => device.cls = TableVariant(row)

\* On, Off and Lock give a status-only device; On, Off and an unrecognized
\* code give a switch
C11_Witness ==
    /\ call.op = "get_device"
    /\ HasPairs(ControlItem(raw_data, control_data))
    /\ \/ /\ DeviceCodes
                = {CONTROL_USE_ON, CONTROL_USE_OFF, CONTROL_USE_LOCK}
          /\ device.cls = "HomeSeerStatusDevice"
       \/ /\ DeviceCodes
                = {CONTROL_USE_ON, CONTROL_USE_OFF} \cup UnknownCodes
          /\ device.cls = "HomeSeerSwitchableDevice"

\* floor(|f| * n) for a float or integer f and an integer n > 0
ScaledFloor(f, n) ==
    IF IsInt(f) THEN Abs(f.int) * n
    ELSE LET bits == MulBits(f.man, n)
             nb   == Len(bits) + f.exp
         IN  IF nb <= 0 THEN 0
             ELSE IF f.exp >= 0 THEN BitsInt(bits) * Pow2(f.exp)
             ELSE BitsIntFrom(bits, 1, nb, 0)

\* |f| * n is not an integer
ScaledFraction(f, n) ==
    IF IsInt(f) THEN FALSE
    ELSE LET bits == MulBits(f.man, n)
             nb   == Len(bits) + f.exp
         IN  \E i \in 1..Len(bits) : i > nb /\ bits[i] = 1

Negative(f) == IF IsInt(f) THEN f.int < 0 ELSE f.neg /\ f.man # <<>>

\* f * n <= bound, exactly
ScaledAtMost(f, n, bound) ==
    IF Negative(f) THEN ScaledFloor(f, n) >= -bound
    ELSE \/ ScaledFloor(f, n) < bound
         \/ ScaledFloor(f, n) = bound /\ ~ScaledFraction(f, n)

\* f * n >= bound, exactly
ScaledAtLeast(f, n, bound) ==
    IF Negative(f)
    THEN \/ ScaledFloor(f, n) < -bound
         \/ ScaledFloor(f, n) = -bound /\ ~ScaledFraction(f, n)
    ELSE ScaledFloor(f, n) >= bound

\* |f - percent| <= 100 / |dim_range|: f is within the percent that one
\* raw unit of the range stands for
WithinOneStep(f, percent, d) ==
    /\ ScaledAtLeast(f, Abs(dim_range(d)),
                     percent * Abs(dim_range(d)) - PercentScale)
    /\ ScaledAtMost(f, Abs(dim_range(d)),
                    percent * Abs(dim_range(d)) + PercentScale)

\* the update that follows carries the value dim sent
DimReadBack ==
    /\ call.op = "dim"
    /\ call.raised = "none"
    /\ requests # <<>>
    /\ call'.op = "update_data"
    /\ call'.raised = "none"
    /\ device_value(raw_data') = requests[1].value

\* C12 as stated: when dim(p), p in 0..100, on a dim-supported device sends
\* v and an update then sets the value to v, dim_percent is within one
\* step of the range (100 / |dimEnd - dimStart| percent) of p.
C12_Original ==
    [][DimReadBack => WithinOneStep(dim_percent(device, raw_data'),
                                    call.arg, device)]_vars

\* the device has dim, and its dim range is empty
DimUnsupported ==
    /\ pc \in {"ready", "done"}
    /\ "dim_start_value" \in DOMAIN device
    /\ ~dim_supported(device)

\* C13: on a device whose dim range is empty (dimStart = dimEnd), dim with
\* any percent returns without raising and sends no request, and
\* dim_percent is 100 when the value equals the on value and 0 otherwise.
C13_DimUnsupported ==
    DimUnsupported =>
        /\ call.op = "dim" => (call.raised = "none" /\ requests = <<>>)
        /\ dim_percent(device, raw_data)
               = IF device_value(raw_data) = device.on_value
                 THEN IntResult(PercentScale) ELSE IntResult(0)

\* dim(101) on the Cover built from On, Off and Stop, whose range is (0,0)
C13_Witness ==
    /\ DimUnsupported
    /\ CodesOf(ControlItem(raw_data, control_data).ControlPairs)
           = {CONTROL_USE_ON, CONTROL_USE_OFF, CONTROL_USE_STOP}
    /\ device.cls = "HomeSeerCoverDevice"
    /\ device.dim_start_value = 0
    /\ device.dim_end_value = 0
    /\ call.op = "dim"
    /\ call.arg = PercentScale + 1
    /\ call.raised = "none"
    /\ requests = <<>>
    /\ dim_percent(device, raw_data) = IntResult(0)

MutatorOps ==
    {"set_value", "on", "off", "dim", "stop", "speed", "lock", "unlock",
     "set_setpoint"}

\* what a step that is a mutator call does and leaves alone
MutatorFrame ==
    /\ Len(requests') <= 1
    /\ \A i \in DOMAIN requests' :
           /\ requests'[i].request = "controldevicebyvalue"
           /\ requests'[i].ref = raw_data.ref
    /\ raw_data' = raw_data
    /\ update_callback' = update_callback
    /\ suppress_update_callback' = suppress_update_callback
    /\ notified' = <<>>
    /\ n_notified' = n_notified

\* C14: a mutator call of any variant sends at most one request, which is
\* a controldevicebyvalue request with the device's own ref, leaves the
\* record, the callback and the suppression flag unchanged and invokes no
\* callback; the device's value changes only in an update_data step.
C14_MutatorsFrame ==
    [][/\ call'.op \in MutatorOps => MutatorFrame
       /\ device_value(raw_data') # device_value(raw_data)
              => call'.op = "update_data"]_vars

\* dim(50) on an observed device has sent a value other than the one the
\* record holds, and nobody was notified
C14_Witness ==
    /\ call.op = "dim"
    /\ call.arg = 50
    /\ update_callback \in Callbacks
    /\ Len(requests) = 1
    /\ requests[1].value # device_value(raw_data)
    /\ notified = <<>>

\* a registration fills the callback and the suppression flag with its
\* arguments
RegistrationReplaces ==
    /\ update_callback' = call'.callback
    /\ suppress_update_callback' = call'.suppress_on_connection

\* an update leaves the registration alone, invokes nothing but the
\* registered callback, at most once, and is suppressed on a connection
\* event exactly when the registered flag says so
UpdateUsesRegistration ==
    /\ update_callback' = update_callback
    /\ suppress_update_callback' = suppress_update_callback
    /\ Len(notified') <= 1
    /\ \A i \in DOMAIN notified' :
           notified'[i].callback = update_callback
    /\ (call'.connection_flag /\ suppress_update_callback)
           => notified' = <<>>
    /\ (/\ call'.raised = "none"
        /\ update_callback # None
        /\ ~(call'.connection_flag /\ suppress_update_callback))
           => Len(notified') = 1

\* C15: each register_update_callback call replaces the callback and the
\* suppression flag, so that an update invokes only the callback registered
\* last, at most once, and suppresses it on a connection event according
\* to the suppress_on_connection argument of the last registration.
C15_SingleRegistration ==
    [][/\ call'.op = "register_update_callback" => RegistrationReplaces
       /\ call'.op = "update_data" => UpdateUsesRegistration]_vars

\* a connection update has invoked the callback registered without
\* suppression
C15_Witness ==
    /\ call.op = "update_data"
    /\ call.connection_flag
    /\ update_callback = [callback |-> "second"]
    /\ ~suppress_update_callback
    /\ Len(notified) = 1
    /\ notified[1].callback = [callback |-> "second"]

\* what update_data without a new record does
UpdateWithoutRecord ==
    /\ call'.raised = "none"
    /\ raw_data' = raw_data
    /\ update_callback' = update_callback
    /\ suppress_update_callback' = suppress_update_callback
    /\ requests' = <<>>
    /\ IF update_callback = None
          \/ (call'.connection_flag /\ suppress_update_callback)
       THEN notified' = <<>>
       ELSE notified' = <<[callback |-> update_callback,
                           seen |-> raw_data]>>

\* C16: update_data without a new record leaves the record unchanged and
\* invokes the registered callback exactly once, unless connection_flag is
\* true and suppression is on; with no callback registered nothing happens.
C16_UpdateWithoutRecord ==
    [][(call'.op = "update_data" /\ call'.new_data = None)
           => UpdateWithoutRecord]_vars

\* an update without a new record has notified the callback of a device
\* whose record lacks a key the debug message reads
C16_Witness ==
    /\ call.op = "update_data"
    /\ call.new_data = None
    /\ call.raised = "none"
    /\ ~(LoggedKeys \subseteq DOMAIN raw_data)
    /\ Len(notified) = 1
    /\ notified[1].seen = raw_data

====
